---------------------------- MODULE Spec2Model ----------------------------
(***************************************************************************)
(* The ELF header codec of src/src/elf/file/mod.rs (Magic, Identification, *)
(* Header, File: from_io / to_io) over the endian-aware readers and        *)
(* writers of src/src/endian/mod.rs.                                       *)
(*                                                                         *)
(* Representation of machine integers.  A u8 and a u16 are naturals.  A    *)
(* u32 and a u64 exceed the integers TLC computes with, so they are kept   *)
(* as fixed-width base-256 numerals, most significant digit first: a u32   *)
(* is a sequence of 4 digits, a u64 a sequence of 8 digits.  Widening      *)
(* (u32 as u64) prepends four zero digits, narrowing (u64 as u32) keeps    *)
(* the four least significant digits, i.e. the value modulo 2^32.          *)
(***************************************************************************)
EXTENDS Naturals, Sequences, FiniteSets, TLC

VARIABLES input, native, pos, calls, held, result, output

vars == <<input, native, pos, calls, held, result, output>>

(***************************************************************************)
(* Bounds of the model.                                                    *)
(***************************************************************************)
\* The longest stream holds a 64-bit header and MaxTail more bytes.
MaxTail == 2

\* The from_io calls made on the stream without a seek back to its start.
MaxCalls == 2

(***************************************************************************)
(* Constants of the program.                                               *)
(***************************************************************************)
EI_NIDENT == 16

MagicLen == 4

ElfMagic == <<127, 69, 76, 70>>

IdentLen == EI_NIDENT

\* Mutant: the padding is taken to be 9 bytes.
IdentRemainingLen_Nine == IdentLen - MagicLen - 3

IdentRemainingLen == IdentLen - MagicLen - 2

\* (Mutant: HeaderFixedFieldsLen_NoFlags leaves the 4 bytes of flags out.)
\* The sum 2 + 2 + 4 + 4 + 2 + 2 + 2 + 2 + 2 + 2 that Header::to_io adds to
\* the count of the identification and of the three address-sized fields.
HeaderFixedFieldsLen_NoFlags == 2 + 2 + 4 + 2 + 2 + 2 + 2 + 2 + 2

HeaderFixedFieldsLen == 2 + 2 + 4 + 4 + 2 + 2 + 2 + 2 + 2 + 2

ByteOrders == {"Little", "Big"}

\* endian::Encoding, the byte order a caller passes to from_io / to_io.
EndianEncoding == {"Little", "Big", "Any"}

\* The variants of the enums, in declaration order: a variant's wire code is
\* its index less one.
\* (Mutant: AddressFormatVariants_Swapped declares the classes in the other
\* order.)
AddressFormatVariants_Swapped == <<"None", "SixtyFourBit", "ThirtyTwoBit">>

AddressFormatVariants == <<"None", "ThirtyTwoBit", "SixtyFourBit">>

EncodingVariants == <<"None", "LittleEndian", "BigEndian">>

TypeVariants == <<"None", "Relocatable", "Executable", "Dynamic", "Core">>

VersionVariants == <<"None", "Current">>

\* Architecture has explicit discriminants: <<variant, code>>.
\* (Mutant: ArchitectureTable_Sequential numbers I860 6, after M88K.)
ArchitectureTable_Sequential ==
    { <<"None", 0>>, <<"M32", 1>>, <<"SPARC", 2>>, <<"I386", 3>>,
      <<"M68K", 4>>, <<"M88K", 5>>, <<"I860", 6>>, <<"MIPS", 8>>,
      <<"PARISC", 9>>, <<"SPARC32PLUS", 18>>, <<"PPC", 20>>, <<"PPC64", 21>>,
      <<"S390", 22>>, <<"ARM", 40>>, <<"SH", 42>>, <<"SPARCV9", 43>>,
      <<"IA_64", 50>>, <<"X86_64", 62>>, <<"VAX", 75>> }

ArchitectureTable ==
    { <<"None", 0>>, <<"M32", 1>>, <<"SPARC", 2>>, <<"I386", 3>>,
      <<"M68K", 4>>, <<"M88K", 5>>, <<"I860", 7>>, <<"MIPS", 8>>,
      <<"PARISC", 9>>, <<"SPARC32PLUS", 18>>, <<"PPC", 20>>, <<"PPC64", 21>>,
      <<"S390", 22>>, <<"ARM", 40>>, <<"SH", 42>>, <<"SPARCV9", 43>>,
      <<"IA_64", 50>>, <<"X86_64", 62>>, <<"VAX", 75>> }

(***************************************************************************)
(* Option and Result values.                                               *)
(***************************************************************************)
Some(v) == [some |-> TRUE, v |-> v]

NoneOpt == [some |-> FALSE]

\* Error::IO(err) of an end of stream met by read_exact.
IoError == [kind |-> "IO", msg |-> <<"UnexpectedEof">>]

\* Error::Parse(text): the text as the sequence of its parts, the literal
\* first and then each value that format! puts into it.
ParseError(parts) == [kind |-> "Parse", msg |-> parts]

NoError == [kind |-> "NoError", msg |-> <<>>]

\* The outcome of a read: the value (when st = "Ok"), the error (when
\* st = "Err") and the stream position the read leaves.
ROk(v, p) == [st |-> "Ok", val |-> v, err |-> NoError, pos |-> p]

RErr(e, p) == [st |-> "Err", val |-> <<>>, err |-> e, pos |-> p]

RPanic(p) == [st |-> "Panic", val |-> <<>>, err |-> NoError, pos |-> p]

Reverse(s) == [i \in 1..Len(s) |-> s[Len(s) + 1 - i]]

(***************************************************************************)
(* The stream: std::io::Read over a sequence of bytes with a position.     *)
(***************************************************************************)
\* Read::read_exact: n bytes from position p, or an end-of-stream error that
\* leaves the position at the end of the stream.
read_exact(s, p, n) ==
    IF p + n <= Len(s)
    THEN ROk(SubSeq(s, p + 1, p + n), p + n)
    ELSE RErr(IoError, Len(s))

\* input.bytes().next().and_then(|result| result.ok()): the next byte, or
\* nothing at the end of the stream (the stream is in memory: its only
\* failure is to end).
bytes_next(s, p) ==
    IF p < Len(s)
    THEN [some |-> TRUE, v |-> s[p + 1], pos |-> p + 1]
    ELSE [some |-> FALSE, v |-> 0, pos |-> p]

\* Read::read_to_end.
read_to_end(s, p) == ROk(SubSeq(s, p + 1, Len(s)), Len(s))

(***************************************************************************)
(* endian::Encoding as Reader and Writer.                                  *)
(***************************************************************************)
\* The byte order of the match arm taken: NativeEndian is the target's.
ArmOf(enc) == IF enc = "Any" THEN native ELSE enc

\* Digits of a value (most significant first) from its bytes on the wire.
FromWire(enc, bytes) == IF ArmOf(enc) = "Little" THEN Reverse(bytes) ELSE bytes

\* Mutant: the writers ignore the byte order and write big-endian.
ToWire_IgnoresOrder(enc, digits) == digits

\* Bytes on the wire of a value's digits (most significant first).
ToWire(enc, digits) == IF ArmOf(enc) = "Little" THEN Reverse(digits) ELSE digits

U16OfDigits(d) == d[1] * 256 + d[2]

DigitsOfU16(v) == <<v \div 256, v % 256>>

read_u16(enc, s, p) ==
    LET r == read_exact(s, p, 2)
    IN  IF r.st = "Ok" THEN ROk(U16OfDigits(FromWire(enc, r.val)), r.pos) ELSE r

read_u32(enc, s, p) ==
    LET r == read_exact(s, p, 4)
    IN  IF r.st = "Ok" THEN ROk(FromWire(enc, r.val), r.pos) ELSE r

read_u64(enc, s, p) ==
    LET r == read_exact(s, p, 8)
    IN  IF r.st = "Ok" THEN ROk(FromWire(enc, r.val), r.pos) ELSE r

\* The writers append to the sink, which takes every byte (a Vec or a file).
write_u16(enc, v, out) == out \o ToWire(enc, DigitsOfU16(v))

write_u32(enc, v, out) == out \o ToWire(enc, v)

write_u64(enc, v, out) == out \o ToWire(enc, v)

\* v as u64, for v: u32.
WidenU32(v) == <<0, 0, 0, 0>> \o v

\* Mutant: the narrowing keeps the four most significant digits.
NarrowU64_HighHalf(v) == SubSeq(v, 1, 4)

\* value as u32, for value: u64.
NarrowU64(v) == SubSeq(v, 5, 8)

(***************************************************************************)
(* FromPrimitive / ToPrimitive of the enums.                               *)
(***************************************************************************)
FromIndex(variants, n) ==
    IF n + 1 \in DOMAIN variants THEN Some(variants[n + 1]) ELSE NoneOpt

ToIndex(variants, v) ==
    IF \E i \in DOMAIN variants : variants[i] = v
    THEN Some((CHOOSE i \in DOMAIN variants : variants[i] = v) - 1)
    ELSE NoneOpt

AddressFormat_from_u8(b) == FromIndex(AddressFormatVariants, b)

AddressFormat_to_u8(c) == ToIndex(AddressFormatVariants, c)

Encoding_from_u8(b) == FromIndex(EncodingVariants, b)

Encoding_to_u8(d) == ToIndex(EncodingVariants, d)

Type_from_u16(n) == FromIndex(TypeVariants, n)

Type_to_u16(t) == ToIndex(TypeVariants, t)

Architecture_from_u16(n) ==
    IF \E e \in ArchitectureTable : e[2] = n
    THEN Some((CHOOSE e \in ArchitectureTable : e[2] = n)[1])
    ELSE NoneOpt

Architecture_to_u16(m) ==
    IF \E e \in ArchitectureTable : e[1] = m
    THEN Some((CHOOSE e \in ArchitectureTable : e[1] = m)[2])
    ELSE NoneOpt

\* A u32 with three zero leading digits has the value of its last digit.
Version_from_u32(d) ==
    IF SubSeq(d, 1, 3) = <<0, 0, 0>> THEN FromIndex(VersionVariants, d[4]) ELSE NoneOpt

Version_to_u32(v) ==
    LET i == ToIndex(VersionVariants, v)
    IN  IF i.some THEN Some(<<0, 0, 0, i.v>>) ELSE NoneOpt


(***************************************************************************)
(* Decoding: from_io.  Every decoder takes the stream s and the position p *)
(* it starts at, and yields the value or the error and the position left.  *)
(***************************************************************************)
\* Mutant: only EI_MAG0 is compared.
Magic_is_valid_FirstByte(m) == m[1] = ElfMagic[1]

Magic_is_valid(m) == m = ElfMagic

Magic_from_io(order, s, p) ==
    LET r == read_exact(s, p, MagicLen)
    IN  IF r.st # "Ok" THEN r
        ELSE IF ~Magic_is_valid(r.val)
        THEN RErr(ParseError(<<"Invalid ELF header, incorrect magic values">>), r.pos)
        ELSE r

Identification_new(magic, class, data) ==
    [magic |-> magic, class |-> class, data |-> data,
     remaining |-> [i \in 1..IdentRemainingLen |-> 0]]

\* Mutant: the class and the byte order are not compared with the None
\* sentinel.
Identification_from_io_NoSentinelCheck(order, s, p) ==
    LET magic == Magic_from_io(order, s, p)
        cb    == bytes_next(s, magic.pos)
        class == IF cb.some THEN AddressFormat_from_u8(cb.v) ELSE NoneOpt
        db    == bytes_next(s, cb.pos)
        data  == IF db.some THEN Encoding_from_u8(db.v) ELSE NoneOpt
        rem   == read_exact(s, db.pos, IdentRemainingLen)
    IN  IF magic.st # "Ok" THEN magic
        ELSE IF ~class.some
        THEN RErr(ParseError(<<"Could not read class type">>), cb.pos)
        ELSE IF ~data.some
        THEN RErr(ParseError(<<"Could not read encoding type">>), db.pos)
        ELSE IF rem.st # "Ok" THEN rem
        ELSE ROk([Identification_new(magic.val, class.v, data.v)
                     EXCEPT !.remaining = rem.val], rem.pos)

Identification_from_io(order, s, p) ==
    LET magic == Magic_from_io(order, s, p)
        cb    == bytes_next(s, magic.pos)
        class == IF cb.some THEN AddressFormat_from_u8(cb.v) ELSE NoneOpt
        db    == bytes_next(s, cb.pos)
        data  == IF db.some THEN Encoding_from_u8(db.v) ELSE NoneOpt
        rem   == read_exact(s, db.pos, IdentRemainingLen)
    IN  IF magic.st # "Ok" THEN magic
        ELSE IF ~class.some
        THEN RErr(ParseError(<<"Could not read class type">>), cb.pos)
        ELSE IF class.v = "None"
        THEN RErr(ParseError(<<"Invalid address format: ", class.v>>), cb.pos)
        ELSE IF ~data.some
        THEN RErr(ParseError(<<"Could not read encoding type">>), db.pos)
        ELSE IF data.v = "None"
        THEN RErr(ParseError(<<"Invalid encoding: ", data.v>>), db.pos)
        ELSE IF rem.st # "Ok" THEN rem
        ELSE ROk([Identification_new(magic.val, class.v, data.v)
                     EXCEPT !.remaining = rem.val], rem.pos)

\* Read the next field as 32 or as 64 bits according to the identification.
architecture_aware_read(ident, endian, s, p) ==
    IF ident.class = "None"
    THEN RErr(ParseError(<<"Could not read version">>), p)
    ELSE IF ident.class = "ThirtyTwoBit"
    THEN LET r == read_u32(endian, s, p)
         IN  IF r.st = "Ok" THEN ROk(WidenU32(r.val), r.pos) ELSE r
    ELSE read_u64(endian, s, p)

\* Mutant: every header that does not panic is taken to be little-endian.
HeaderEndian_IgnoresData(ident) ==
    IF ident.data \in {"LittleEndian", "BigEndian"} THEN "Little" ELSE "Panic"

\* The byte order Header::from_io and Header::to_io derive from ident.data;
\* "Panic" stands for the arm panic!("should not be hit.").
HeaderEndian(ident) ==
    IF ident.data = "LittleEndian" THEN "Little"
    ELSE IF ident.data = "BigEndian" THEN "Big"
    ELSE "Panic"

\* The ? operator on a Result (as at mod.rs:371): the error (or the panic)
\* ends the call, the value goes on to the rest of the function.
Try(r, Rest(_)) == IF r.st # "Ok" THEN r ELSE Rest(r)

\* Option::ok_or(e) on a value read up to position p.
ok_or(opt, e, p) == IF opt.some THEN ROk(opt.v, p) ELSE RErr(e, p)

Header_from_io(order, s, p) ==
    Try(Identification_from_io(order, s, p), LAMBDA ident :
    LET endian == HeaderEndian(ident.val)
    IN
    IF endian = "Panic" THEN RPanic(ident.pos) ELSE
    Try(read_u16(endian, s, ident.pos), LAMBDA r_type :
    Try(ok_or(Type_from_u16(r_type.val),
              ParseError(<<"Could not read type">>), r_type.pos), LAMBDA e_type :
    Try(read_u16(endian, s, e_type.pos), LAMBDA r_machine :
    Try(ok_or(Architecture_from_u16(r_machine.val),
              ParseError(<<"Could not read machine">>), r_machine.pos), LAMBDA machine :
    Try(read_u32(endian, s, machine.pos), LAMBDA r_version :
    Try(ok_or(Version_from_u32(r_version.val),
              ParseError(<<"Could not read version">>), r_version.pos), LAMBDA version :
    Try(architecture_aware_read(ident.val, endian, s, version.pos), LAMBDA entry :
    Try(architecture_aware_read(ident.val, endian, s, entry.pos), LAMBDA phoff :
    Try(architecture_aware_read(ident.val, endian, s, phoff.pos), LAMBDA shoff :
    Try(read_u32(endian, s, shoff.pos), LAMBDA flags :
    Try(read_u16(endian, s, flags.pos), LAMBDA ehsize :
    Try(read_u16(endian, s, ehsize.pos), LAMBDA phentsize :
    Try(read_u16(endian, s, phentsize.pos), LAMBDA phnum :
    Try(read_u16(endian, s, phnum.pos), LAMBDA shentsize :
    Try(read_u16(endian, s, shentsize.pos), LAMBDA shnum :
    Try(read_u16(endian, s, shnum.pos), LAMBDA shstrndx :
    ROk([ident |-> ident.val, e_type |-> e_type.val,
         machine |-> machine.val, version |-> version.val,
         entry |-> entry.val, phoff |-> phoff.val,
         shoff |-> shoff.val, flags |-> flags.val,
         ehsize |-> ehsize.val, phentsize |-> phentsize.val,
         phnum |-> phnum.val, shentsize |-> shentsize.val,
         shnum |-> shnum.val, shstrndx |-> shstrndx.val],
        shstrndx.pos))))))))))))))))))

File_new(header) == [header |-> header, remaining |-> <<>>]

File_from_io(order, s, p) ==
    Try(Header_from_io(order, s, p), LAMBDA header :
    Try(read_to_end(s, header.pos), LAMBDA rest :
    ROk([File_new(header.val) EXCEPT !.remaining = @ \o rest.val], rest.pos)))

\* The positions the stream takes in one from_io call that starts at p: the
\* start, then the position each nested call leaves (File::from_io calls
\* Header::from_io, which calls Identification::from_io, which calls
\* Magic::from_io, each before any read of its own).
Positions(kind, order, s, p) ==
    <<p, Magic_from_io(order, s, p).pos>>
    \o (IF kind = "Magic" THEN <<>> ELSE <<Identification_from_io(order, s, p).pos>>)
    \o (IF kind \in {"Header", "File"} THEN <<Header_from_io(order, s, p).pos>> ELSE <<>>)
    \o (IF kind = "File" THEN <<File_from_io(order, s, p).pos>> ELSE <<>>)

(***************************************************************************)
(* The caller: parse_elf_file of main.rs.                                  *)
(***************************************************************************)
\* Mutant: the seek is relative to the current position.
SeekFrom_Start_Relative(p, offset) == p + offset

\* Seek::seek(SeekFrom::Start(offset)) on a stream at position p: the
\* position it takes.
SeekFrom_Start(p, offset) == offset

\* The outcome of parse_elf_file on a stream at position p: that of the File
\* decode (or of the probe, when the probe fails), with the probe's outcome
\* and the position the File decode starts at.  The class dispatch has an arm
\* that panics and two arms that make the same call.
parse_elf_file(s, p) ==
    LET encoding       == "Any"
        identification == Identification_from_io(encoding, s, p)
        start          == SeekFrom_Start(identification.pos, 0)
        elf            == IF identification.val.class = "None"
                          THEN RPanic(start)
                          ELSE File_from_io(encoding, s, start)
    IN  IF identification.st # "Ok"
        THEN [probe |-> identification, start |-> p, out |-> identification]
        ELSE [probe |-> identification, start |-> start, out |-> elf]

(***************************************************************************)
(* Encoding: to_io.  Every encoder takes the bytes the sink holds and      *)
(* yields the count it returns (when st = "Ok"), the error (when           *)
(* st = "Err") and the bytes the sink holds when the call ends.            *)
(***************************************************************************)
WOk(n, out) == [st |-> "Ok", n |-> n, err |-> NoError, out |-> out]

WErr(e, out) == [st |-> "Err", n |-> 0, err |-> e, out |-> out]

WPanic(out) == [st |-> "Panic", n |-> 0, err |-> NoError, out |-> out]

\* Write::write on the sink: all of buf is taken, and its length returned.
sink_write(buf, out) == WOk(Len(buf), out \o buf)

Magic_to_io(magic, order, out) == sink_write(magic, out)

Identification_to_io(ident, order, out) ==
    LET w_magic == Magic_to_io(ident.magic, order, out)
        class   == AddressFormat_to_u8(ident.class)
        w_class == sink_write(<<class.v>>, w_magic.out)
        data    == Encoding_to_u8(ident.data)
        w_data  == sink_write(<<data.v>>, w_class.out)
        w_rem   == sink_write(ident.remaining, w_data.out)
    IN  IF w_magic.st # "Ok" THEN w_magic
        ELSE IF ~class.some
        THEN WErr(ParseError(<<"Could not convert class">>), w_magic.out)
        ELSE IF ~data.some
        THEN WErr(ParseError(<<"Could not convert data">>), w_class.out)
        ELSE WOk(w_magic.n + w_class.n + w_data.n + w_rem.n, w_rem.out)

\* Mutant: the 32-bit arm refuses a value that does not fit in 32 bits.
architecture_aware_write_Checked(ident, value, endian, out) ==
    IF ident.class = "None"
    THEN WErr(ParseError(<<"Could not write version">>), out)
    ELSE IF ident.class = "ThirtyTwoBit"
    THEN IF SubSeq(value, 1, 4) # <<0, 0, 0, 0>>
         THEN WErr(ParseError(<<"Could not write version">>), out)
         ELSE WOk(4, write_u32(endian, NarrowU64(value), out))
    ELSE WOk(8, write_u64(endian, value, out))

\* Write the value as 32 or as 64 bits according to the identification.
architecture_aware_write(ident, value, endian, out) ==
    IF ident.class = "None"
    THEN WErr(ParseError(<<"Could not write version">>), out)
    ELSE IF ident.class = "ThirtyTwoBit"
    THEN WOk(4, write_u32(endian, NarrowU64(value), out))
    ELSE WOk(8, write_u64(endian, value, out))

Header_to_io(h, order, out) ==
    LET w_ident   == Identification_to_io(h.ident, order, out)
        endian    == HeaderEndian(h.ident)
        e_type    == Type_to_u16(h.e_type)
        machine   == Architecture_to_u16(h.machine)
        version   == Version_to_u32(h.version)
        o_type    == write_u16(endian, e_type.v, w_ident.out)
        o_machine == write_u16(endian, machine.v, o_type)
        o_version == write_u32(endian, version.v, o_machine)
        w_entry   == architecture_aware_write(h.ident, h.entry, endian, o_version)
        w_phoff   == architecture_aware_write(h.ident, h.phoff, endian, w_entry.out)
        w_shoff   == architecture_aware_write(h.ident, h.shoff, endian, w_phoff.out)
        o_flags   == write_u32(endian, h.flags, w_shoff.out)
        o_ehsize  == write_u16(endian, h.ehsize, o_flags)
        o_phentsz == write_u16(endian, h.phentsize, o_ehsize)
        o_phnum   == write_u16(endian, h.phnum, o_phentsz)
        o_shentsz == write_u16(endian, h.shentsize, o_phnum)
        o_shnum   == write_u16(endian, h.shnum, o_shentsz)
        o_shstrnx == write_u16(endian, h.shstrndx, o_shnum)
    IN  IF w_ident.st # "Ok" THEN w_ident
        ELSE IF endian = "Panic" THEN WPanic(w_ident.out)
        ELSE IF ~e_type.some
        THEN WErr(ParseError(<<"Could not convert type">>), w_ident.out)
        ELSE IF ~machine.some
        THEN WErr(ParseError(<<"Could not convert machine">>), w_ident.out)
        ELSE IF ~version.some
        THEN WErr(ParseError(<<"Could not convert version">>), w_ident.out)
        ELSE IF w_entry.st # "Ok" THEN w_entry
        ELSE IF w_phoff.st # "Ok" THEN w_phoff
        ELSE IF w_shoff.st # "Ok" THEN w_shoff
        ELSE WOk(w_ident.n + w_entry.n + w_phoff.n + w_shoff.n
                     + HeaderFixedFieldsLen, o_shstrnx)

File_to_io(f, order, out) ==
    LET w_header == Header_to_io(f.header, order, out)
        w_rest   == sink_write(f.remaining, w_header.out)
    IN  IF w_header.st # "Ok" THEN w_header
        ELSE WOk(w_header.n + w_rest.n, w_rest.out)

(***************************************************************************)
(* The streams the model decodes.                                          *)
(***************************************************************************)
\* The longest stream: the 64 bytes of a 64-bit header and a tail.
FullLen == 64 + MaxTail

BadMagics == { <<127, 69, 76, 71>>, <<0, 69, 76, 70>> }

ClassBytes == 0..3

DataBytes == 0..3

\* The padding of the identification: ten distinct non-zero bytes.
PadBytes == [i \in 1..10 |-> 100 + i]

TypeWires == { <<2, 0>>, <<0, 3>>, <<0, 0>>, <<5, 0>> }

MachineWires == { <<62, 0>>, <<0, 40>>, <<6, 0>>, <<0, 10>> }

VersionWires == { <<1, 0, 0, 0>>, <<0, 0, 0, 1>>, <<0, 0, 0, 0>>, <<2, 0, 0, 0>> }

\* What follows the version field: the byte at offset k of the stream is k.
BodyBytes == [i \in 1..(FullLen - 24) |-> 23 + i]

Image(m, c, d, t, a, v) == m \o <<c, d>> \o PadBytes \o t \o a \o v \o BodyBytes

\* Scalar fields (type, machine, version) that are well-formed in the byte
\* order of data byte d: Dynamic, ARM, Current in big-endian for d = 2,
\* Executable, X86_64, Current in little-endian otherwise.
BaseScalars(d) ==
    IF d = 2
    THEN << <<0, 3>>, <<0, 40>>, <<0, 0, 0, 1>> >>
    ELSE << <<2, 0>>, <<62, 0>>, <<1, 0, 0, 0>> >>

BaseImage(m, c, d) ==
    Image(m, c, d, BaseScalars(d)[1], BaseScalars(d)[2], BaseScalars(d)[3])

\* The images with a valid identification and well-formed scalar fields.
WellFormedImages == { BaseImage(ElfMagic, c, d) : c \in {1, 2}, d \in {1, 2} }

\* A second padding, for a well-formed image of each class.
AltPadBytes == [i \in 1..10 |-> IF i = 4 THEN 0 ELSE 255]

AltPadImage(c) ==
    ElfMagic \o <<c, 1>> \o AltPadBytes
        \o SubSeq(BaseImage(ElfMagic, c, 1), 17, FullLen)

\* The fields that follow the identification, each as the indices of its
\* first and last byte in the stream, for class byte c.
FieldBounds(c) ==
    IF c = 1
    THEN { <<17, 18>>, <<19, 20>>, <<21, 24>>, <<25, 28>>, <<29, 32>>, <<33, 36>>,
           <<37, 40>>, <<41, 42>>, <<43, 44>>, <<45, 46>>, <<47, 48>>, <<49, 50>>,
           <<51, 52>> }
    ELSE { <<17, 18>>, <<19, 20>>, <<21, 24>>, <<25, 32>>, <<33, 40>>, <<41, 48>>,
           <<49, 52>>, <<53, 54>>, <<55, 56>>, <<57, 58>>, <<59, 60>>, <<61, 62>>,
           <<63, 64>> }

\* The stream with the other byte-order byte and every field that follows
\* the identification byte-reversed; the tail is kept.
Mirrored(s) ==
    [i \in 1..Len(s) |->
        IF i = 6 THEN 3 - s[6]
        ELSE IF \E f \in FieldBounds(s[5]) : f[1] <= i /\ i <= f[2]
        THEN LET f == CHOOSE g \in FieldBounds(s[5]) : g[1] <= i /\ i <= g[2]
             IN  s[f[1] + f[2] - i]
        ELSE s[i]]

\* One image for each identification and for each bad magic, the well-formed
\* images with one scalar field replaced, those with the second padding, and
\* the well-formed images mirrored.
Images ==
    { BaseImage(ElfMagic, c, d) : c \in ClassBytes, d \in DataBytes }
    \cup { AltPadImage(c) : c \in {1, 2} }
    \cup { Mirrored(img) : img \in WellFormedImages }
    \cup { BaseImage(m, 1, 1) : m \in BadMagics }
    \cup { Image(ElfMagic, c, d, t, BaseScalars(d)[2], BaseScalars(d)[3]) :
             c \in {1, 2}, d \in {1, 2}, t \in TypeWires }
    \cup { Image(ElfMagic, c, d, BaseScalars(d)[1], a, BaseScalars(d)[3]) :
             c \in {1, 2}, d \in {1, 2}, a \in MachineWires }
    \cup { Image(ElfMagic, c, d, BaseScalars(d)[1], BaseScalars(d)[2], v) :
             c \in {1, 2}, d \in {1, 2}, v \in VersionWires }

Prefix(s, n) == SubSeq(s, 1, n)

\* Every image whole, every image cut anywhere in its identification, and
\* every well-formed image cut anywhere.
Streams ==
    Images
    \cup { Prefix(img, n) : img \in Images, n \in 0..16 }
    \cup { Prefix(img, n) : img \in WellFormedImages, n \in 0..FullLen }

(***************************************************************************)
(* The state: the stream and its position, the value the last from_io      *)
(* call returned (with the fields assigned to it since), the outcome of    *)
(* the last call, and the sink of the last to_io call.                     *)
(***************************************************************************)
\* held: the kind of value, the value, the position its decoding started at,
\* the number of bytes its decoding consumed, and whether a field has been
\* assigned since.
NoValue ==
    [kind |-> "None", val |-> <<>>, start |-> 0, consumed |-> 0, assigned |-> FALSE]

NoResult == [op |-> "none", st |-> "none", err |-> NoError, start |-> 0, n |-> 0]

Decoded(kind, r, p) ==
    IF r.st = "Ok"
    THEN [kind |-> kind, val |-> r.val, start |-> p, consumed |-> r.pos - p,
          assigned |-> FALSE]
    ELSE NoValue

Init ==
    /\ input \in Streams
    /\ native \in ByteOrders
    /\ pos = 0
    /\ calls = 0
    /\ held = NoValue
    /\ result = NoResult
    /\ output = <<>>

\* A from_io call on the stream, at its current position.
FromIo(kind, r) ==
    /\ calls < MaxCalls
    /\ calls' = calls + 1
    /\ input' = input
    /\ native' = native
    /\ pos' = r.pos
    /\ held' = Decoded(kind, r, pos)
    /\ result' = [op |-> kind \o "::from_io", st |-> r.st, err |-> r.err,
                  start |-> pos, n |-> 0]
    /\ output' = <<>>

MagicFromIo ==
    \E order \in EndianEncoding : FromIo("Magic", Magic_from_io(order, input, pos))

IdentificationFromIo ==
    \E order \in EndianEncoding :
        FromIo("Identification", Identification_from_io(order, input, pos))

HeaderFromIo ==
    \E order \in EndianEncoding : FromIo("Header", Header_from_io(order, input, pos))

FileFromIo ==
    \E order \in EndianEncoding : FromIo("File", File_from_io(order, input, pos))

\* A parse_elf_file call on the stream, at its current position.
ParseElfFile ==
    /\ calls < MaxCalls
    /\ calls' = calls + 1
    /\ LET r == parse_elf_file(input, pos)
       IN  /\ pos' = r.out.pos
           /\ held' = Decoded("File", r.out, r.start)
           /\ result' = [op |-> "parse_elf_file", st |-> r.out.st, err |-> r.out.err,
                         start |-> r.start, n |-> 0, probe |-> r.probe]
    /\ output' = <<>>
    /\ UNCHANGED <<input, native>>

\* input.seek(SeekFrom::Start(0)).
SeekStart ==
    /\ pos # 0
    /\ pos' = SeekFrom_Start(pos, 0)
    /\ calls' = 0
    /\ result' = NoResult
    /\ output' = <<>>
    /\ UNCHANGED <<input, native, held>>

\* The identification and the header inside the held value.
HasIdent == held.kind \in {"Identification", "Header", "File"}

HasHeader == held.kind \in {"Header", "File"}

HeldHeader == IF held.kind = "File" THEN held.val.header ELSE held.val

HeldIdent == IF held.kind = "Identification" THEN held.val ELSE HeldHeader.ident

WithIdent(ident) ==
    IF held.kind = "Identification" THEN ident
    ELSE IF held.kind = "Header" THEN [held.val EXCEPT !.ident = ident]
    ELSE [held.val EXCEPT !.header.ident = ident]

\* A to_io call on the held value, into an empty sink.
ToIo(kind, w) ==
    /\ result' = [op |-> kind \o "::to_io", st |-> w.st, err |-> w.err,
                  start |-> pos, n |-> w.n]
    /\ output' = w.out
    /\ UNCHANGED <<input, native, pos, calls, held>>

IdentificationToIo ==
    /\ HasIdent
    /\ \E order \in EndianEncoding :
           ToIo("Identification", Identification_to_io(HeldIdent, order, <<>>))

HeaderToIo ==
    /\ HasHeader
    /\ \E order \in EndianEncoding :
           ToIo("Header", Header_to_io(HeldHeader, order, <<>>))

FileToIo ==
    /\ held.kind = "File"
    /\ \E order \in EndianEncoding :
           ToIo("File", File_to_io(held.val, order, <<>>))

\* Explicit assignment of the class or of the byte order of the held value,
\* to any variant of the enum, the None sentinel included.
AssignClass ==
    /\ HasIdent
    /\ \E c \in {AddressFormatVariants[i] : i \in DOMAIN AddressFormatVariants} :
           /\ c # HeldIdent.class
           /\ held' = [held EXCEPT !.val = WithIdent([HeldIdent EXCEPT !.class = c]),
                                   !.assigned = TRUE]
    /\ result' = NoResult
    /\ output' = <<>>
    /\ UNCHANGED <<input, native, pos, calls>>

AssignData ==
    /\ HasIdent
    /\ \E d \in {EncodingVariants[i] : i \in DOMAIN EncodingVariants} :
           /\ d # HeldIdent.data
           /\ held' = [held EXCEPT !.val = WithIdent([HeldIdent EXCEPT !.data = d]),
                                   !.assigned = TRUE]
    /\ result' = NoResult
    /\ output' = <<>>
    /\ UNCHANGED <<input, native, pos, calls>>

\* The u64 value assigned to an address-sized field: 2^32 or more, its low
\* half unlike any four bytes of a stream.
AssignedAddresses == { <<0, 0, 0, 1, 200, 201, 202, 203>> }

WithHeader(h) ==
    IF held.kind = "Header" THEN h ELSE [held.val EXCEPT !.header = h]

\* Explicit assignment of entry, phoff or shoff of a decoded 32-bit Header
\* (a decoded 64-bit Header holds such values from its decoding).
AssignAddress ==
    /\ held.kind = "Header"
    /\ HeldIdent.class = "ThirtyTwoBit"
    /\ ~held.assigned
    /\ \E v \in AssignedAddresses :
           \/ held' = [held EXCEPT !.val = WithHeader([HeldHeader EXCEPT !.entry = v]),
                                   !.assigned = TRUE]
           \/ held' = [held EXCEPT !.val = WithHeader([HeldHeader EXCEPT !.phoff = v]),
                                   !.assigned = TRUE]
           \/ held' = [held EXCEPT !.val = WithHeader([HeldHeader EXCEPT !.shoff = v]),
                                   !.assigned = TRUE]
    /\ result' = NoResult
    /\ output' = <<>>
    /\ UNCHANGED <<input, native, pos, calls>>

Next ==
    \/ MagicFromIo
    \/ IdentificationFromIo
    \/ HeaderFromIo
    \/ FileFromIo
    \/ ParseElfFile
    \/ SeekStart
    \/ IdentificationToIo
    \/ HeaderToIo
    \/ FileToIo
    \/ AssignClass
    \/ AssignData
    \/ AssignAddress

Spec == Init /\ [][Next]_vars

(***************************************************************************)
(* What the claims are stated with.  The magic, the wire codes and the     *)
(* sizes are written here as the specification gives them, not taken from  *)
(* the definitions above.                                                  *)
(***************************************************************************)
ClaimMagic == <<127, 69, 76, 70>>

IdentDecoders == {"Identification::from_io", "Header::from_io", "File::from_io"}

HeaderDecoders == {"Header::from_io", "File::from_io"}

Decoders == {"Magic::from_io"} \cup IdentDecoders

HeaderEncoders == {"Header::to_io", "File::to_io"}

Encoders == {"Identification::to_io"} \cup HeaderEncoders

\* The bytes of the stream from the position the last call started at.
Window == SubSeq(input, result.start + 1, Len(input))

\* The bytes of the stream the held value was decoded from, and on.
HeldWindow == SubSeq(input, held.start + 1, Len(input))

FailsWith(kind) == result.st = "Err" /\ result.err.kind = kind

WindowHasMagic == Len(Window) >= 4 /\ SubSeq(Window, 1, 4) = ClaimMagic

\* The identification at the head of the window is valid.
WindowHasIdent ==
    /\ WindowHasMagic
    /\ Len(Window) >= 16
    /\ Window[5] \in {1, 2}
    /\ Window[6] \in {1, 2}

\* The value of the 16-bit field at offset k of the window, in the byte
\* order the window's data byte declares.
WindowU16(k) ==
    IF Window[6] = 1
    THEN Window[k + 1] + 256 * Window[k + 2]
    ELSE 256 * Window[k + 1] + Window[k + 2]

\* The bytes of an address-sized field of the held header: 4 or 8.
HeldWidth == IF HeldIdent.class = "ThirtyTwoBit" THEN 4 ELSE 8

(***************************************************************************)
(* C1.  For every stream of N bytes on which File::from_io succeeds,       *)
(* File::to_io of the decoded value writes exactly the N bytes of the      *)
(* stream and returns N.  (A decode that starts at a position p > 0 covers *)
(* the N bytes from p.)                                                    *)
(***************************************************************************)
C1_FileRoundTrip ==
    (result.op = "File::to_io" /\ held.kind = "File" /\ ~held.assigned)
        => /\ result.st = "Ok"
           /\ output = HeldWindow
           /\ result.n = Len(HeldWindow)

\* A 64-bit big-endian file with an empty tail has been decoded from the
\* start of its stream and encoded again.
C1_Witness ==
    /\ result.op = "File::to_io"
    /\ result.st = "Ok"
    /\ held.kind = "File"
    /\ ~held.assigned
    /\ held.start = 0
    /\ held.val.header.ident.class = "SixtyFourBit"
    /\ held.val.header.ident.data = "BigEndian"
    /\ held.val.remaining = <<>>
    /\ Len(input) = 64
    /\ output = input

(***************************************************************************)
(* C2.  For every Header h that Header::from_io produced, decoding the     *)
(* bytes Header::to_io writes for h yields a Header equal to h field for   *)
(* field, in every combination of address class and byte order, whatever   *)
(* byte order the caller passes.                                           *)
(***************************************************************************)
C2_HeaderDecodeEncode ==
    (result.op = "Header::to_io" /\ HasHeader /\ ~held.assigned)
        => /\ result.st = "Ok"
           /\ \A order \in EndianEncoding :
                 /\ Header_from_io(order, output, 0).st = "Ok"
                 /\ Header_from_io(order, output, 0).val = HeldHeader
                 /\ Header_from_io(order, output, 0).pos = Len(output)

\* A 32-bit little-endian header has been decoded and encoded again.
C2_Witness ==
    /\ result.op = "Header::to_io"
    /\ result.st = "Ok"
    /\ held.kind = "Header"
    /\ ~held.assigned
    /\ held.val.ident.class = "ThirtyTwoBit"
    /\ held.val.ident.data = "LittleEndian"
    /\ held.val.e_type = "Executable"
    /\ Header_from_io("Any", output, 0).val = held.val

(***************************************************************************)
(* C3.  For a Header that Header::from_io produced, Header::to_io writes   *)
(* exactly as many bytes as the decode consumed and returns that number:   *)
(* 52 for the 32-bit class and 64 for the 64-bit class, each of the three  *)
(* address-sized fields taking 4 resp. 8 bytes on read and on write, so    *)
(* that the flags field follows at offset 24 + 3 * 4 resp. 24 + 3 * 8.     *)
(***************************************************************************)
C3_HeaderLength ==
    (result.op = "Header::to_io" /\ held.kind = "Header" /\ ~held.assigned)
        => /\ result.st = "Ok"
           /\ Len(output) = held.consumed
           /\ result.n = held.consumed
           /\ held.consumed = IF HeldIdent.class = "ThirtyTwoBit" THEN 52 ELSE 64
           /\ LET at   == 24 + 3 * HeldWidth
                  wire == IF HeldIdent.data = "LittleEndian"
                          THEN Reverse(held.val.flags) ELSE held.val.flags
              IN  /\ SubSeq(HeldWindow, at + 1, at + 4) = wire
                  /\ SubSeq(output, at + 1, at + 4) = wire

\* A 64-bit header has been decoded from 64 bytes and encoded into 64.
C3_Witness ==
    /\ result.op = "Header::to_io"
    /\ result.st = "Ok"
    /\ held.kind = "Header"
    /\ ~held.assigned
    /\ held.val.ident.class = "SixtyFourBit"
    /\ held.consumed = 64
    /\ result.n = 64
    /\ Len(output) = 64

(***************************************************************************)
(* C4 as stated.  Decoding any input whose first 4 bytes are not the magic *)
(* fails with a parse error, whatever the length of the input, the empty   *)
(* and the single-byte input included.                                     *)
(***************************************************************************)
C4_Original ==
    (result.op \in Decoders /\ ~WindowHasMagic) => FailsWith("Parse")

(***************************************************************************)
(* C4 as amended.  Decoding an input of at least 4 bytes whose first 4     *)
(* bytes are not the magic fails with a parse error; decoding an input of  *)
(* fewer than 4 bytes (the empty and the single-byte input included) fails *)
(* with an end-of-stream I/O error.                                        *)
(***************************************************************************)
C4_BadMagic ==
    (result.op \in Decoders /\ ~WindowHasMagic)
        => IF Len(Window) >= 4 THEN FailsWith("Parse") ELSE FailsWith("IO")

\* A stream of 4 or more bytes with a wrong last magic byte was rejected.
C4_Witness ==
    /\ result.op = "File::from_io"
    /\ result.start = 0
    /\ Len(input) > 4
    /\ SubSeq(input, 1, 3) = SubSeq(ClaimMagic, 1, 3)
    /\ input[4] # ClaimMagic[4]
    /\ FailsWith("Parse")

(***************************************************************************)
(* C5.  Decoding a stream shorter than 16 bytes fails with an end-of-      *)
(* stream I/O error and never with a parse error or a panic; in particular *)
(* a stream that holds a valid magic and ends at the class byte or at the  *)
(* byte-order byte.  Stated for the streams whose only fault is to end:    *)
(* the proper prefixes of a valid identification.                          *)
(***************************************************************************)
C5_ShortStreamIsIoError ==
    ( /\ result.op \in IdentDecoders
      /\ Len(Window) < 16
      /\ \E c \in {1, 2}, d \in {1, 2} :
            \A i \in 1..Len(Window) :
                /\ i <= 4 => Window[i] = ClaimMagic[i]
                /\ i = 5 => Window[i] = c
                /\ i = 6 => Window[i] = d )
        => FailsWith("IO")

(***************************************************************************)
(* C6.  Identification::from_io maps the class byte by {1 -> ThirtyTwoBit, *)
(* 2 -> SixtyFourBit} and the byte-order byte by {1 -> LittleEndian,       *)
(* 2 -> BigEndian}.  After a valid magic a class byte outside {1, 2} fails *)
(* with a parse error about the address class, a byte-order byte outside   *)
(* {1, 2} with a parse error about the byte order, and an input of 16      *)
(* bytes with class 2 and order 1 decodes to address class SixtyFourBit.   *)
(***************************************************************************)
C6_ClassAndOrderTables ==
    /\ ( /\ result.op \in IdentDecoders
         /\ WindowHasMagic
         /\ Len(Window) >= 5
         /\ Window[5] \notin {1, 2} )
           => /\ FailsWith("Parse")
              /\ result.err.msg[1] \in
                     {"Could not read class type", "Invalid address format: "}
    /\ ( /\ result.op \in IdentDecoders
         /\ WindowHasMagic
         /\ Len(Window) >= 6
         /\ Window[5] \in {1, 2}
         /\ Window[6] \notin {1, 2} )
           => /\ FailsWith("Parse")
              /\ result.err.msg[1] \in
                     {"Could not read encoding type", "Invalid encoding: "}
    /\ (result.op = "Identification::from_io" /\ WindowHasIdent)
           => /\ result.st = "Ok"
              /\ held.val.class =
                     IF Window[5] = 1 THEN "ThirtyTwoBit" ELSE "SixtyFourBit"
              /\ held.val.data =
                     IF Window[6] = 1 THEN "LittleEndian" ELSE "BigEndian"

\* An input of exactly 16 bytes with class 2 and order 1 has been decoded.
C6_Witness ==
    /\ result.op = "Identification::from_io"
    /\ result.start = 0
    /\ Len(input) = 16
    /\ SubSeq(input, 1, 4) = ClaimMagic
    /\ input[5] = 2
    /\ input[6] = 1
    /\ result.st = "Ok"
    /\ held.val.class = "SixtyFourBit"

(***************************************************************************)
(* C7.  Header::from_io rejects the version wire code 0 (None): a header   *)
(* whose 32-bit version field is 0 fails with a parse error.  Stated for   *)
(* streams that hold a whole header (52 bytes for the 32-bit class, 64 for *)
(* the 64-bit class) behind a valid identification.                        *)
(***************************************************************************)
C7_VersionNoneRejected ==
    ( /\ result.op \in HeaderDecoders
      /\ WindowHasIdent
      /\ Len(Window) >= (IF Window[5] = 1 THEN 52 ELSE 64)
      /\ SubSeq(Window, 21, 24) = <<0, 0, 0, 0>> )
        => FailsWith("Parse")

\* The wire codes of the object types and of the architectures.
ClaimTypeCodes == 0..4

ClaimIsaCodes == {0, 1, 2, 3, 4, 5, 7, 8, 9, 18, 20, 21, 22, 40, 42, 43, 50, 62, 75}

\* The header decode met an unknown object-type code.
UnknownTypeCode ==
    /\ result.op \in HeaderDecoders
    /\ WindowHasIdent
    /\ Len(Window) >= 18
    /\ WindowU16(16) \notin ClaimTypeCodes

\* The header decode met a known object-type code and an unknown
\* architecture code.
UnknownIsaCode ==
    /\ result.op \in HeaderDecoders
    /\ WindowHasIdent
    /\ Len(Window) >= 20
    /\ WindowU16(16) \in ClaimTypeCodes
    /\ WindowU16(18) \notin ClaimIsaCodes

\* The text of the error holds the wire value v.
ErrorNames(v) == \E i \in DOMAIN result.err.msg : result.err.msg[i] = ToString(v)

(***************************************************************************)
(* C8 as stated.  Header::from_io fails with a parse error for every       *)
(* object-type code outside {None, ..., Core} and every architecture code  *)
(* outside the ISA table, and the parse error identifies both the field    *)
(* and the offending wire value.                                           *)
(***************************************************************************)
C8_Original ==
    /\ UnknownTypeCode
           => /\ FailsWith("Parse")
              /\ result.err.msg[1] = "Could not read type"
              /\ ErrorNames(WindowU16(16))
    /\ UnknownIsaCode
           => /\ FailsWith("Parse")
              /\ result.err.msg[1] = "Could not read machine"
              /\ ErrorNames(WindowU16(18))

(***************************************************************************)
(* C8 as amended.  Header::from_io fails with a parse error for every      *)
(* object-type code outside {None, ..., Core} and every architecture code  *)
(* outside the ISA table (6 and 10 among them); the parse error identifies *)
(* the field by a fixed text ("Could not read type", "Could not read       *)
(* machine") and does not carry the offending wire value.                  *)
(***************************************************************************)
C8_UnknownEnumCodes ==
    /\ UnknownTypeCode
           => /\ FailsWith("Parse")
              /\ result.err.msg = <<"Could not read type">>
              /\ ~ErrorNames(WindowU16(16))
    /\ UnknownIsaCode
           => /\ FailsWith("Parse")
              /\ result.err.msg = <<"Could not read machine">>
              /\ ~ErrorNames(WindowU16(18))

\* A header with the architecture code 6 has been rejected.
C8_Witness ==
    /\ UnknownIsaCode
    /\ WindowU16(18) = 6
    /\ FailsWith("Parse")
    /\ result.err.msg = <<"Could not read machine">>

(***************************************************************************)
(* C9 as stated.  Identification::from_io consumes exactly 16 bytes: the 4 *)
(* magic bytes, the class byte, the byte-order byte and then 9 padding     *)
(* bytes; Identification::to_io writes exactly 16 bytes, ending with the 9 *)
(* stored padding bytes.                                                   *)
(***************************************************************************)
C9_Original ==
    /\ (result.op = "Identification::from_io" /\ result.st = "Ok")
           => /\ held.consumed = 16
              /\ Len(held.val.remaining) = 9
    /\ (result.op = "Identification::to_io" /\ HasIdent)
           => /\ result.st = "Ok"
              /\ Len(output) = 16
              /\ Len(HeldIdent.remaining) = 9

(***************************************************************************)
(* C9 as amended.  Identification::from_io consumes exactly 16 bytes: the  *)
(* 4 magic bytes, the class byte, the byte-order byte and then 10 padding  *)
(* bytes read verbatim without validation; Identification::to_io writes    *)
(* exactly 16 bytes, ending with the 10 stored padding bytes unchanged.    *)
(***************************************************************************)
C9_IdentificationLayout ==
    /\ (result.op = "Identification::from_io" /\ result.st = "Ok")
           => /\ held.consumed = 16
              /\ pos = result.start + 16
              /\ held.val.magic = SubSeq(Window, 1, 4)
              /\ Len(held.val.remaining) = 10
              /\ held.val.remaining = SubSeq(Window, 7, 16)
    /\ (result.op = "Identification::from_io" /\ WindowHasIdent)
           => result.st = "Ok"
    /\ (result.op = "Identification::to_io" /\ HasIdent)
           => /\ result.st = "Ok"
              /\ result.n = 16
              /\ Len(output) = 16
              /\ SubSeq(output, 1, 4) = HeldIdent.magic
              /\ SubSeq(output, 7, 16) = HeldIdent.remaining

\* An identification whose padding holds 0xFF bytes has been decoded and
\* encoded again.
C9_Witness ==
    /\ result.op = "Identification::to_io"
    /\ result.st = "Ok"
    /\ held.kind = "Identification"
    /\ ~held.assigned
    /\ held.consumed = 16
    /\ held.val.remaining[1] = 255
    /\ held.val.remaining[4] = 0
    /\ output = SubSeq(HeldWindow, 1, 16)

(***************************************************************************)
(* C10.  Encoding a value that holds an enum variant with no wire code     *)
(* fails before any byte of that field or of a later field is written, and *)
(* is never reported as a success: a Header whose address class or byte    *)
(* order is the None sentinel leaves no class, order, type, machine or     *)
(* version byte in the sink (at most the 4 magic bytes), fails with an     *)
(* error and does not panic.                                               *)
(***************************************************************************)
C10_NoPartialEncode ==
    ( /\ result.op \in HeaderEncoders
      /\ HasHeader
      /\ (HeldIdent.class = "None" \/ HeldIdent.data = "None") )
        => /\ result.st = "Err"
           /\ Len(output) <= 4

(***************************************************************************)
(* C11.  In the probe-then-reset protocol (decode the Identification       *)
(* alone, inspect the class, seek to offset 0, decode the whole File) the  *)
(* File decode starts at offset 0 and has the outcome of a File decode of  *)
(* a fresh stream over the same bytes, its class the one the probe         *)
(* returned; in every decode call the position never moves backward from   *)
(* one phase (Magic, Identification, Header scalars, tail) to the next,    *)
(* and a File decode that succeeds leaves it at the end of the stream.     *)
(***************************************************************************)
NonDecreasing(t) == \A i \in 1..(Len(t) - 1) : t[i] <= t[i + 1]

\* The kind of value the last call decoded.
DecodedKind ==
    IF result.op = "Magic::from_io" THEN "Magic"
    ELSE IF result.op = "Identification::from_io" THEN "Identification"
    ELSE IF result.op = "Header::from_io" THEN "Header"
    ELSE "File"

ProbeSucceeded == result.op = "parse_elf_file" /\ result.probe.st = "Ok"

C11_ProbeThenReset ==
    /\ ProbeSucceeded =>
           LET fresh == File_from_io("Any", input, 0)
           IN  /\ result.start = 0
               /\ result.st = fresh.st
               /\ result.err = fresh.err
               /\ result.st = "Ok" =>
                      /\ held.val = fresh.val
                      /\ held.val.header.ident.class = result.probe.val.class
    /\ (result.op \in Decoders \/ ProbeSucceeded) =>
           \A order \in EndianEncoding :
               LET t == Positions(DecodedKind, order, input, result.start)
               IN  /\ NonDecreasing(t)
                   /\ t[Len(t)] = pos
    /\ (result.op \in {"File::from_io", "parse_elf_file"} /\ result.st = "Ok") =>
           pos = Len(input)

\* parse_elf_file returned a File with a tail, decoded from offset 0 after a
\* probe that left the stream at offset 16.
C11_Witness ==
    /\ ProbeSucceeded
    /\ result.probe.pos = 16
    /\ result.st = "Ok"
    /\ held.kind = "File"
    /\ held.start = 0
    /\ Len(held.val.remaining) > 0
    /\ pos = Len(input)

(***************************************************************************)
(* C12.  Every multi-byte field after the identification is decoded and    *)
(* encoded in the byte order the identification's byte-order byte          *)
(* declares: a decoded field has the value of its bytes read in that       *)
(* order; the stream with the other byte-order byte and every such field   *)
(* byte-reversed decodes to the same field values, and the header with     *)
(* the other byte order encodes to the byte-reversed fields; the byte      *)
(* order the caller passes (Little, Big or Any) changes neither the        *)
(* decoded values nor the encoded bytes.                                   *)
(***************************************************************************)
HeaderDecoded ==
    result.st = "Ok" /\ result.op \in HeaderDecoders \cup {"parse_elf_file"}

\* The digits (most significant first) of the w-byte field at offset k of
\* the window, read in the byte order the window's byte-order byte declares.
WindowDigits(k, w) ==
    IF Window[6] = 1
    THEN Reverse(SubSeq(Window, k + 1, k + w))
    ELSE SubSeq(Window, k + 1, k + w)

\* The same, for an address-sized field, as 8 digits.
WindowAddress(k) ==
    IF Window[5] = 1
    THEN <<0, 0, 0, 0>> \o WindowDigits(k, 4)
    ELSE WindowDigits(k, 8)

\* The bytes the last to_io call wrote after the header.
EncodedTail == IF result.op = "File::to_io" THEN Len(held.val.remaining) ELSE 0

OtherOrder(h) ==
    [h EXCEPT !.ident.data =
        IF @ = "LittleEndian" THEN "BigEndian"
        ELSE IF @ = "BigEndian" THEN "LittleEndian" ELSE @]

C12_DeclaredByteOrder ==
    /\ HeaderDecoded =>
           LET h == HeldHeader
               a == IF Window[5] = 1 THEN 4 ELSE 8
               g == 28 + 3 * a
           IN  /\ Type_to_u16(h.e_type) = Some(WindowU16(16))
               /\ Architecture_to_u16(h.machine) = Some(WindowU16(18))
               /\ Version_to_u32(h.version) = Some(WindowDigits(20, 4))
               /\ h.entry = WindowAddress(24)
               /\ h.phoff = WindowAddress(24 + a)
               /\ h.shoff = WindowAddress(24 + 2 * a)
               /\ h.flags = WindowDigits(24 + 3 * a, 4)
               /\ <<h.ehsize, h.phentsize, h.phnum, h.shentsize, h.shnum, h.shstrndx>>
                      = [i \in 1..6 |-> WindowU16(g + 2 * (i - 1))]
               /\ \A order \in EndianEncoding :
                      /\ Header_from_io(order, input, result.start).st = "Ok"
                      /\ Header_from_io(order, input, result.start).val = h
                      /\ Header_from_io(order, Mirrored(Window), 0).st = "Ok"
                      /\ Header_from_io(order, Mirrored(Window), 0).val = OtherOrder(h)
    /\ (result.op \in HeaderEncoders /\ result.st = "Ok") =>
           \A order \in EndianEncoding :
               /\ Header_to_io(HeldHeader, order, <<>>).out
                      = SubSeq(output, 1, Len(output) - EncodedTail)
               /\ result.op = "Header::to_io" =>
                      /\ Header_to_io(OtherOrder(HeldHeader), order, <<>>).st = "Ok"
                      /\ Header_to_io(OtherOrder(HeldHeader), order, <<>>).out
                             = Mirrored(output)

\* A big-endian header, decoded and then encoded on a little-endian target,
\* whose fields are not palindromes.
C12_Witness ==
    /\ result.op = "Header::to_io"
    /\ result.st = "Ok"
    /\ ~held.assigned
    /\ HeldIdent.data = "BigEndian"
    /\ native = "Little"
    /\ output = SubSeq(HeldWindow, 1, Len(output))
    /\ Mirrored(output) # output
    /\ HeldHeader.ehsize # U16OfDigits(Reverse(DigitsOfU16(HeldHeader.ehsize)))

(***************************************************************************)
(* C13.  After a successful Identification decode the stored class is      *)
(* ThirtyTwoBit or SixtyFourBit and the stored byte order is LittleEndian  *)
(* or BigEndian, never None; so no decode and no class dispatch panics,    *)
(* the None branch of the address-width read is never taken (an error      *)
(* with its text comes from a version field that has no variant), and the  *)
(* encode of a decoded Header neither panics nor takes the None branch of  *)
(* the address-width write: it succeeds.                                   *)
(***************************************************************************)
ClaimClasses == {"ThirtyTwoBit", "SixtyFourBit"}

ClaimOrders == {"LittleEndian", "BigEndian"}

C13_NoSentinelAfterDecode ==
    /\ (result.op \in IdentDecoders /\ result.st = "Ok") =>
           /\ HeldIdent.class \in ClaimClasses
           /\ HeldIdent.data \in ClaimOrders
    /\ ProbeSucceeded =>
           /\ result.probe.val.class \in ClaimClasses
           /\ result.probe.val.data \in ClaimOrders
    /\ result.op \in Decoders \cup {"parse_elf_file"} => result.st # "Panic"
    /\ ( /\ result.op \in HeaderDecoders \cup {"parse_elf_file"}
         /\ result.st = "Err"
         /\ result.err = ParseError(<<"Could not read version">>) )
           => /\ Len(Window) >= 24
              /\ WindowDigits(20, 4) \notin {<<0, 0, 0, 0>>, <<0, 0, 0, 1>>}
    /\ (result.op \in HeaderEncoders /\ ~held.assigned) =>
           /\ result.st = "Ok"
           /\ HeldIdent.class \in ClaimClasses
           /\ HeldIdent.data \in ClaimOrders

\* parse_elf_file dispatched on the class of a 64-bit big-endian stream and
\* returned its File.
C13_Witness ==
    /\ ProbeSucceeded
    /\ result.probe.val.class = "SixtyFourBit"
    /\ result.probe.val.data = "BigEndian"
    /\ result.st = "Ok"
    /\ held.kind = "File"
    /\ HeldIdent = result.probe.val
    /\ input[5] = 2
    /\ input[6] = 2

(***************************************************************************)
(* C14.  A Header decoded with class ThirtyTwoBit holds entry, phoff and   *)
(* shoff as 64-bit values below 2^32, and its encode writes back the 4     *)
(* bytes each was decoded from; the encode of a 32-bit Header with an      *)
(* address-sized field of 2^32 or more succeeds and writes, in 4 bytes,    *)
(* the value modulo 2^32.                                                  *)
(***************************************************************************)
\* The digits of v modulo 2^32, for v of 8 digits.
Low32(v) == [i \in 1..4 |-> v[i + 4]]

Below2To32(v) == Len(v) = 8 /\ \A i \in 1..4 : v[i] = 0

\* The 4 bytes at offset k of the sink, as digits, in the byte order the
\* held header declares.
OutputDigits(k) ==
    IF HeldIdent.data = "LittleEndian"
    THEN Reverse(SubSeq(output, k + 1, k + 4))
    ELSE SubSeq(output, k + 1, k + 4)

C14_AddressNarrowing ==
    /\ (HeaderDecoded /\ HeldIdent.class = "ThirtyTwoBit") =>
           /\ Below2To32(HeldHeader.entry)
           /\ Below2To32(HeldHeader.phoff)
           /\ Below2To32(HeldHeader.shoff)
    /\ ( /\ result.op \in HeaderEncoders
         /\ HeldIdent.class = "ThirtyTwoBit"
         /\ HeldIdent.data \in ClaimOrders )
           => /\ result.st = "Ok"
              /\ result.n = 52 + EncodedTail
              /\ Len(output) = result.n
              /\ OutputDigits(24) = Low32(HeldHeader.entry)
              /\ OutputDigits(28) = Low32(HeldHeader.phoff)
              /\ OutputDigits(32) = Low32(HeldHeader.shoff)
              /\ ~held.assigned =>
                     SubSeq(output, 25, 36) = SubSeq(HeldWindow, 25, 36)

\* A decoded 32-bit Header, an address-sized field of which was assigned a
\* value of 2^32 or more, was encoded: 52 bytes, and success.
C14_Witness ==
    /\ result.op = "Header::to_io"
    /\ result.st = "Ok"
    /\ held.assigned
    /\ HeldIdent.class = "ThirtyTwoBit"
    /\ HeldWindow[5] = 1
    /\ ~Below2To32(HeldHeader.phoff)
    /\ Below2To32(HeldHeader.entry)
    /\ Len(output) = 52
    /\ OutputDigits(28) = <<200, 201, 202, 203>>

=============================================================================
